---- MODULE Spec2Model ----
(***************************************************************************)
(* A model of the AuthService class of formater-auth-service-js: one       *)
(* authentication service (a "Session") in a browser page, the network     *)
(* requests it has in flight, the timers it has started and the popup it   *)
(* has opened.  Every action is one event-loop task of the page: a public  *)
(* method called by the application, a message event, a timer tick or the  *)
(* settling of one fetch() with every promise callback chained on it.      *)
(***************************************************************************)
EXTENDS Integers, Sequences, FiniteSets, Bags, TLC

\* ------------------------------------------------------------------ bounds

\* fetch() requests in flight at the same time
MaxInFlight == 1

\* intervals started by setInterval and not cleared, at the same time
MaxTimers == 2

\* poll loops of the logout popup alive at the same time
MaxPolls == 1

\* ------------------------------------------------------- JavaScript values

Null == [t |-> "null"]

Undefined == [t |-> "undefined"]

True == [t |-> "bool", v |-> TRUE]

Str(s) == [t |-> "str", v |-> s]

Num(n) == [t |-> "num", v |-> n]

Obj(o) == [t |-> "obj", v |-> o]

\* the object {}
EmptyObject == [k \in {} |-> Undefined]

\* ToBoolean(x), the test of `if (x)`, `!x` and `x || y`
Truthy(x) ==
    CASE x.t = "null" -> FALSE
      [] x.t = "undefined" -> FALSE
      [] x.t = "bool" -> x.v
      [] x.t = "num" -> x.v # 0
      [] x.t = "str" -> Len(x.v) # 0
      [] OTHER -> TRUE

\* x || y
Or(x, y) == IF Truthy(x) THEN x ELSE y

\* o.k for an object o given as a record of fields: undefined when absent
Get(o, k) == IF k \in DOMAIN o THEN o[k] ELSE Undefined

\* Object.assign(a, b)
Assign(a, b) ==
    [k \in (DOMAIN a) \cup (DOMAIN b) |-> IF k \in DOMAIN b THEN b[k] ELSE a[k]]

\* s.indexOf(t) >= 0 for strings given as sequences of characters
Contains(s, t) ==
    \E i \in 0..(Len(s) - Len(t)) : \A j \in 1..Len(t) : s[i + j] = t[j]

\* ------------------------------------------------------------ configuration

Methods == {"public", "backend-token", "backend-credentials", "apache"}

\* the authorize URL of the service, a string given as its characters
AuthUrl == Str(<<"h", ":", "s", "s", "o", "/", "a">>)

\* The configurations a service is constructed with, for every method: the
\* plain one (userinfo URL, no logout URL, no iframe, default lifetime) and the
\* three that differ from it in one respect: a logout URL, the hidden iframe
\* with a configured lifetime (of 40 minutes), no userinfo URL.
Variants ==
    {[userinfoUrl |-> Str("userinfo"), logoutUrl |-> Null,
      iframe |-> FALSE, lifetime |-> Undefined],
     [userinfoUrl |-> Str("userinfo"), logoutUrl |-> Str("logout"),
      iframe |-> FALSE, lifetime |-> Undefined],
     [userinfoUrl |-> Str("userinfo"), logoutUrl |-> Null,
      iframe |-> TRUE, lifetime |-> Num(2400)],
     [userinfoUrl |-> Null, logoutUrl |-> Null,
      iframe |-> FALSE, lifetime |-> Undefined]}

\* the configuration of a service constructed with {openidUrl: ...} and
\* nothing else: the method is the default one and every endpoint is null
\* until the metadata of the provider arrives
DiscoveredConfig ==
    [method |-> "public", authUrl |-> Null, tokenUrl |-> Null,
     refreshUrl |-> Null, userinfoUrl |-> Null, logoutUrl |-> Null,
     iframe |-> FALSE, lifetime |-> Undefined, openidUrl |-> Str("openid")]

Configs ==
    {[method |-> m, authUrl |-> AuthUrl, tokenUrl |-> Str("token"),
      refreshUrl |-> Str("refresh"), userinfoUrl |-> v.userinfoUrl,
      logoutUrl |-> v.logoutUrl, iframe |-> v.iframe, lifetime |-> v.lifetime,
      openidUrl |-> Null] :
        m \in Methods, v \in Variants}
    \cup {DiscoveredConfig}

\* ------------------------------------------------- state and nonce

\* the characters of 'app_fmt' and of '_', as character codes
AppFmt == <<97, 112, 112, 95, 102, 109, 116>>

Underscore == <<95>>

\* n + '' for a number n below 100, as character codes
Decimal(n) ==
    IF n < 10 THEN <<48 + n>> ELSE <<48 + (n \div 10), 48 + (n % 10)>>

\* btoa(b) for a string b given as character codes: the base64 text, each
\* character given as its index in A-Za-z0-9+/ and the padding '=' as 64
RECURSIVE btoa(_)
btoa(b) ==
    IF Len(b) = 0 THEN <<>>
    ELSE IF Len(b) = 1
    THEN <<b[1] \div 4, (b[1] % 4) * 16, 64, 64>>
    ELSE IF Len(b) = 2
    THEN <<b[1] \div 4, (b[1] % 4) * 16 + (b[2] \div 16), (b[2] % 16) * 4, 64>>
    ELSE <<b[1] \div 4, (b[1] % 4) * 16 + (b[2] \div 16),
           (b[2] % 16) * 4 + (b[3] \div 64), b[3] % 64>>
         \o btoa(SubSeq(b, 4, Len(b)))

\* x.replace(/=|\+|\//gm, '0') for a base64 text x: '+' (62), '/' (63) and
\* '=' (64) become '0' (52)
replace(x) ==
    [i \in DOMAIN x |-> IF x[i] \in {62, 63, 64} THEN 52 ELSE x[i]]

\* _initState(id) on the day date: the nonce and the state it assigns
_initState(id, date) ==
    LET str == id \o Underscore \o Decimal(date.month) \o Underscore
                  \o Decimal(date.date)
    IN  [_nonce |-> Str(replace(btoa(str))),
         _state |-> Str(replace(btoa(AppFmt \o id)))]

\* the identifier the service is constructed with, 'a1', as character codes
ServiceId == <<97, 49>>

\* new Date() at construction: getMonth() and getDate()
Today == [month |-> 10, date |-> 5]

\* the state and the nonce of the service
State == _initState(ServiceId, Today)._state

Nonce == _initState(ServiceId, Today)._nonce

\* the state of a service of identifier 'b1'
OtherState == _initState(<<98, 49>>, Today)._state

\* ------------------------------------------------------------------- state

VARIABLES
    _config,        \* the configuration the service was constructed with
    _state,         \* the state parameter of the login request (correlation token)
    _nonce,         \* the nonce parameter of the login request
    _callback,      \* event name -> whether a callback is recorded for it
    _codeListener,  \* whether this._codeListener holds a listener (is not null)
    listeners,      \* how many message listeners of the service the window has
    _identity,      \* Null or Obj(fields)
    _iframe,        \* whether the hidden iframe is in the document
    _expire,        \* Null, Undefined or Num(milliseconds)
    _timer,         \* Null or Num(id of an interval)
    _refreshToken,  \* Null, Undefined, Str or True
    _token,         \* Null, Undefined, Str or True
    popup,          \* this.popup: "null" or "open" (a window)
    loops,          \* poll loops of _logout still running (public method)
    timers,         \* the live refresh intervals: records [id, delay]
    net,            \* bag of the fetch() requests in flight
    lastOp,         \* history: the task that ran last, with its input
    fired,          \* history: callbacks invoked by the last task, in order
    sent,           \* history: requests issued by the last task, in order
    seen,           \* history: the fields each callback of fired found
    page            \* the other services alive on the page, a sequence

vars ==
    <<_config, _state, _callback, _codeListener, listeners, _identity, _iframe,
      _expire, _timer, _refreshToken, _token, popup, loops, timers, net, lastOp,
      fired, sent, seen, _nonce, page>>

\* The mutable fields of the service and of the page as one record, the form in
\* which the methods below read and update them.  threw: the running function
\* has thrown; ovf: a bound of the model was exceeded.
Cur ==
    [_codeListener |-> _codeListener, listeners |-> listeners,
     _identity |-> _identity,
     _iframe |-> _iframe, _expire |-> _expire, _timer |-> _timer,
     _refreshToken |-> _refreshToken, _token |-> _token, popup |-> popup,
     loops |-> loops, timers |-> timers, net |-> net, fired |-> <<>>,
     sent |-> <<>>, seen |-> <<>>, threw |-> FALSE, ovf |-> FALSE]

\* the task `op` of the service ends with the fields s
Store(s, op) ==
    /\ ~s.ovf
    /\ _codeListener' = s._codeListener
    /\ listeners' = s.listeners
    /\ _identity' = s._identity
    /\ _iframe' = s._iframe
    /\ _expire' = s._expire
    /\ _timer' = s._timer
    /\ _refreshToken' = s._refreshToken
    /\ _token' = s._token
    /\ popup' = s.popup
    /\ loops' = s.loops
    /\ timers' = s.timers
    /\ net' = s.net
    /\ fired' = s.fired
    /\ sent' = s.sent
    /\ seen' = s.seen
    /\ lastOp' = op
    /\ UNCHANGED <<_config, _state, _nonce, _callback>>

\* Commit as it would be if every task ran _initState again, on the next day
Commit_InitStateAgain(s, op) ==
    /\ ~s.ovf
    /\ _codeListener' = s._codeListener
    /\ listeners' = s.listeners
    /\ _identity' = s._identity
    /\ _iframe' = s._iframe
    /\ _expire' = s._expire
    /\ _timer' = s._timer
    /\ _refreshToken' = s._refreshToken
    /\ _token' = s._token
    /\ popup' = s.popup
    /\ loops' = s.loops
    /\ timers' = s.timers
    /\ net' = s.net
    /\ fired' = s.fired
    /\ sent' = s.sent
    /\ seen' = s.seen
    /\ lastOp' = op
    /\ _state' = _initState(ServiceId, [Today EXCEPT !.date = @ + 1])._state
    /\ _nonce' = _initState(ServiceId, [Today EXCEPT !.date = @ + 1])._nonce
    /\ UNCHANGED <<_config, _callback, page>>

\* the task `op` ends with the fields s; it runs no code of another service
Commit(s, op) ==
    /\ Store(s, op)
    /\ UNCHANGED page

\* the function running in s throws
Throw(s) == [s EXCEPT !.threw = TRUE]

\* a thrown error was caught (or ended a promise chain)
Caught(s) == [s EXCEPT !.threw = FALSE]

\* the service as a callback invoked with it (the argument `this`) finds it
This(s) ==
    [_token |-> s._token, _identity |-> s._identity, _expire |-> s._expire,
     _timer |-> s._timer]

\* this._callback[name](arg) when a callback is recorded, as the guards
\* `if (this._callback.x)` have it
Fire(s, name, arg) ==
    IF _callback[name]
    THEN [s EXCEPT !.fired = Append(@, [cb |-> name, arg |-> arg]),
                   !.seen = Append(@, This(s))]
    ELSE s

\* fetch(...): request r is in flight
Fetch(s, r) ==
    [s EXCEPT !.net = @ (+) SetToBag({r}),
              !.sent = Append(@, r),
              !.ovf = @ \/ BagCardinality(s.net) >= MaxInFlight]

\* request r settles
Settle(s, r) == [s EXCEPT !.net = @ (-) SetToBag({r})]

\* the identifier setInterval returns: a positive integer no live interval has
FreshTimer(s) ==
    CHOOSE i \in 1..(Cardinality(s.timers) + 1) : \A x \in s.timers : x.id # i

\* this._timer = setInterval(function () { self._requestRefreshToken() }, delay)
SetInterval(s, delay) ==
    [s EXCEPT !.timers = @ \cup {[id |-> FreshTimer(s), delay |-> delay]},
              !._timer = Num(FreshTimer(s)),
              !.ovf = @ \/ Cardinality(s.timers) >= MaxTimers]

\* clearInterval(h)
ClearInterval(s, h) ==
    [s EXCEPT !.timers = {x \in @ : Num(x.id) # h}]

\* a promise of getUserInfo() settles: how is "resolve" or "reject"
PromiseSettles(s, how, arg) ==
    [s EXCEPT !.fired = Append(@, [cb |-> how, arg |-> arg]),
              !.seen = Append(@, This(s))]

\* ----------------------------------------------------------------- methods

\* the ceiling of _expire in _setToken, 30 * 60 * 1000
ExpireMax == 1800000

\* _expire of _setUserCredentials when no lifetime is configured
DefaultLifetime == 1200000

\* jwt_decode(token): the claims a token carries, by token; any other token is
\* malformed and jwt_decode throws
JwtClaims ==
    [jA |-> [data |-> Obj([email |-> Str("a@b.com")]), exp |-> Num(3605)],
     jB |-> [sub |-> Str("u1")]]

WellFormedJwt(tok) == tok.t = "str" /\ tok.v \in DOMAIN JwtClaims

\* _triggerError as it would be if it invoked no callback
_triggerError_Silent(s, name) == s

_triggerError(s, name) == Fire(s, "error", name)

\* _resetUser as it would be if it did not invoke the logout callback
_resetUser_NoCallback(s) ==
    LET s1 == IF Truthy(s._timer) THEN ClearInterval(s, s._timer) ELSE s
    IN  [s1 EXCEPT !._timer = Null, !._identity = Null, !._expire = Null,
                   !._token = Null, !._refreshToken = Null]

_resetUser(s) ==
    LET s1 == IF Truthy(s._timer) THEN ClearInterval(s, s._timer) ELSE s
        s2 == [s1 EXCEPT !._timer = Null, !._identity = Null, !._expire = Null,
                         !._token = Null, !._refreshToken = Null]
    IN  Fire(s2, "logout", Undefined)

\* _requestUserInfo as it would be if it required no token and sent none
_requestUserInfo_NoBearer(s, resolve, reject) ==
    IF ~Truthy(_config.userinfoUrl)
    THEN IF reject THEN PromiseSettles(s, "reject", Str("NO_USERINFO_URL")) ELSE s
    ELSE Fetch(s, [kind |-> "userinfo", bearer |-> Undefined,
                   resolve |-> resolve, reject |-> reject])

\* resolve: "authenticated" (the recorded callback), "null" (no callback was
\* recorded) or "promise"; reject: whether a reject function was passed
_requestUserInfo(s, resolve, reject) ==
    IF ~Truthy(_config.userinfoUrl)
    THEN IF reject THEN PromiseSettles(s, "reject", Str("NO_USERINFO_URL")) ELSE s
    ELSE IF _config.method # "apache" /\ _config.method # "credentials"
            /\ ~Truthy(s._token)
    THEN IF reject THEN PromiseSettles(s, "reject", Str("NOT_AUTHENTICATED")) ELSE s
    ELSE Fetch(s, [kind |-> "userinfo",
                   bearer |-> IF _config.method = "apache" THEN Undefined
                              ELSE s._token,
                   resolve |-> resolve, reject |-> reject])

\* _setUserCredentials as it would be if it recorded the identity only
_setUserCredentials_NoSentinel(s, data) ==
    IF Truthy(Get(data, "email")) THEN [s EXCEPT !._identity = Obj(data)] ELSE s

_setUserCredentials(s, data) ==
    IF Truthy(Get(data, "email"))
    THEN LET s1 == [s EXCEPT !._identity = Obj(data), !._token = True,
                             !._expire = IF Truthy(_config.lifetime)
                                         THEN Num(_config.lifetime.v * 1000)
                                         ELSE Num(DefaultLifetime)]
             s2 == IF ~Truthy(s1._timer)
                   THEN Fire(s1, "authenticated", s1._identity)
                   ELSE s1
         IN  IF ~Truthy(s2._timer) THEN SetInterval(s2, s2._expire) ELSE s2
    ELSE s

\* win: what window.open returns, "open" (a window) or "null" (blocked)
_logout(s, win) ==
    CASE _config.method \in {"backend-token", "backend-credentials"} ->
           Fetch(s, [kind |-> "logout"])
      [] _config.method = "public" ->
           [s EXCEPT !.popup = win, !.loops = @ + 1,
                     !.ovf = @ \/ s.loops >= MaxPolls]
      [] OTHER -> s

logout(s, second, win) ==
    IF ~second /\ Truthy(_config.logoutUrl)
    THEN _logout(s, win)
    ELSE _resetUser(s)

\* _setToken as it would be if it recorded the token and decoded nothing
_setToken_NoIdentity(s, data, now, win) ==
    IF Truthy(Get(data, "token")) \/ Truthy(Get(data, "access_token"))
    THEN LET tok == Or(Get(data, "token"), Get(data, "access_token"))
         IN  [s EXCEPT !._token = tok, !._refreshToken = tok]
    ELSE s

\* now: new Date().getTime(); win: as for _logout
_setToken(s, data, now, win) ==
    IF Truthy(Get(data, "email"))
    THEN _setUserCredentials(s, data)
    ELSE IF Truthy(Get(data, "token")) \/ Truthy(Get(data, "access_token"))
    THEN LET tok == Or(Get(data, "token"), Get(data, "access_token"))
             s1 == [s EXCEPT !._token = tok,
                             !._refreshToken =
                                 IF Truthy(Get(data, "refresh_token"))
                                 THEN Get(data, "refresh_token") ELSE tok]
         IN  IF Truthy(Get(data, "id_token")) \/ Truthy(Get(data, "token"))
             THEN LET jwt == IF Truthy(Get(data, "id_token"))
                             THEN Get(data, "id_token") ELSE Get(data, "token")
                  IN  IF ~WellFormedJwt(jwt)
                      THEN Throw(s1)
                      ELSE LET obj == JwtClaims[jwt.v]
                               s2 == [s1 EXCEPT !._identity =
                                          Or(Get(obj, "data"), Obj(obj))]
                               s3 == Fire(s2, "authenticated", s2._identity)
                               s4 == IF Truthy(Get(obj, "exp"))
                                     THEN LET e == obj.exp.v * 1000 - now
                                          IN  [s3 EXCEPT !._expire =
                                                  IF e > ExpireMax
                                                  THEN Num(ExpireMax) ELSE Num(e)]
                                     ELSE s3
                               s5 == IF Truthy(Get(data, "expires_in"))
                                     THEN [s4 EXCEPT !._expire =
                                              Num(data.expires_in.v * 1000)]
                                     ELSE s4
                           IN  IF Truthy(s5._expire)
                               THEN SetInterval(s5, s5._expire)
                               ELSE s5
             \* obj is undefined here, and the read of obj.exp throws
             ELSE Throw(_requestUserInfo(
                      s1, IF _callback["authenticated"] THEN "authenticated"
                          ELSE "null", FALSE))
    ELSE logout(s, FALSE, win)

_requestOpenidEndpoints(s, url) == Fetch(s, [kind |-> "openid"])

\* caller: the caller, "add" or "timer", kept with the request as history
_requestRefreshToken(s, caller) ==
    Fetch(s, [kind |-> "refresh", caller |-> caller])

_requestToken(s, code) == Fetch(s, [kind |-> "token"])

\* ------------------------------------------------------------------ inputs

\* new Date().getTime() when a token is recorded
Now == 5000

\* what window.open returns: a window (a blocked popup, null, is left out)
Windows == {"open"}

\* origins of message events, as characters
SsoOrigin == <<"h", ":", "s", "s", "o">>

OtherOrigin == <<"h", ":", "e", "v">>

\* message events: the origin of the sender and the payload
Events ==
    {[origin |-> SsoOrigin, data |-> [code |-> Str("c"), state |-> State]],
     [origin |-> OtherOrigin, data |-> [code |-> Str("c"), state |-> State]],
     [origin |-> OtherOrigin, data |-> [code |-> Str("c"), state |-> OtherState]],
     [origin |-> OtherOrigin, data |-> [code |-> Str("c")]],
     [origin |-> OtherOrigin, data |-> [state |-> State]],
     [origin |-> SsoOrigin, data |-> [email |-> Str("a@b.com")]],
     [origin |-> OtherOrigin, data |-> [email |-> Str("a@b.com")]]}

\* bodies of the responses of the token endpoint
TokenResponses ==
    {[access_token |-> Str("t1"), refresh_token |-> Str("r1"), id_token |-> Str("jA")],
     [access_token |-> Str("t1"), refresh_token |-> Str("r1"), expires_in |-> Num(60)],
     [token |-> Str("jB")],
     [access_token |-> Str("t1"), id_token |-> Str("jA"), email |-> Str("a@b.com")],
     [access_token |-> Str("t1"), refresh_token |-> Str("r1"), id_token |-> Str("bad")],
     [error |-> Str("invalid_grant")]}

\* bodies of the responses of the userinfo endpoint
UserinfoResponses ==
    {[email |-> Str("a@b.com")],
     [profile |-> Obj([email |-> Str("a@b.com")])]}

\* bodies of the responses of the refresh endpoint
RefreshResponses ==
    {[access_token |-> Str("t2")],
     [email |-> Str("a@b.com")],
     [error |-> Str("invalid_grant")]}

\* bodies of the responses testLogin reads
TestLoginResponses ==
    {[email |-> Str("a@b.com")],
     [preferred_username |-> Str("u")],
     [error |-> Str("unauthorized")]}

\* bodies of the responses of the metadata document of the provider
OpenidResponses ==
    {[authorization_endpoint |-> AuthUrl, token_endpoint |-> Str("token"),
      userinfo_endpoint |-> Str("userinfo"),
      end_session_endpoint |-> Str("logout")],
     [issuer |-> Str("sso")]}

\* how a fetch() settles: the request fails, the body is not JSON, or JSON
Failed == [how |-> "failed"]

Unparsable == [how |-> "unparsable"]

Json(body) == [how |-> "json", body |-> body]

Outcomes(bodies) == {Failed, Unparsable} \cup {Json(b) : b \in bodies}

\* ----------------------------------------------------------- construction

\* the requests the constructor issues: the metadata request of
\* _requestOpenidEndpoints when config.openidUrl is given
Constructed(config) ==
    LET s == [net |-> EmptyBag, sent |-> <<>>, ovf |-> FALSE]
    IN  IF Truthy(config.openidUrl)
        THEN _requestOpenidEndpoints(s, config.openidUrl)
        ELSE s

Init ==
    /\ _config \in Configs
    /\ _state = _initState(ServiceId, Today)._state
    /\ _nonce = _initState(ServiceId, Today)._nonce
    /\ page = <<>>
    /\ _callback = [authenticated |-> FALSE, logout |-> FALSE, error |-> FALSE]
    /\ _codeListener = FALSE
    /\ listeners = 0
    /\ _identity = Null
    /\ _iframe = FALSE
    /\ _expire = Null
    /\ _timer = Null
    /\ _refreshToken = Null
    /\ _token = Null
    /\ popup = "null"
    /\ loops = 0
    /\ timers = {}
    /\ net = Constructed(_config).net
    /\ lastOp = [op |-> "constructor"]
    /\ fired = <<>>
    /\ sent = Constructed(_config).sent
    /\ seen = <<>>

\* ------------------------------------------------- calls of the application

\* the application records its callbacks: on('authenticated', f),
\* on('logout', g) and on('error', h), in one task
on ==
    /\ _callback' = [e \in DOMAIN _callback |-> TRUE]
    /\ lastOp' = [op |-> "on"]
    /\ fired' = <<>>
    /\ sent' = <<>>
    /\ seen' = <<>>
    /\ UNCHANGED <<_config, _state, _nonce, _codeListener, listeners, _identity,
                   _iframe, _expire, _timer, _refreshToken, _token, popup,
                   loops, timers, net, page>>

\* add as it would be if it registered a listener on every call
add_NoGuard ==
    LET s1 == IF _config.iframe /\ ~_iframe
              THEN [Cur EXCEPT !._iframe = TRUE] ELSE Cur
        s2 == IF _config.method = "backend-credentials"
              THEN _requestRefreshToken(s1, "add") ELSE s1
        s3 == [s2 EXCEPT !._codeListener = TRUE, !.listeners = @ + 1]
    IN  /\ Commit(s3, [op |-> "add", again |-> _codeListener])

\* again (history): whether a listener was held when add() was called
add ==
    LET s1 == IF _config.iframe /\ ~_iframe
              THEN [Cur EXCEPT !._iframe = TRUE] ELSE Cur
        s2 == IF _config.method = "backend-credentials"
              THEN _requestRefreshToken(s1, "add") ELSE s1
        s3 == IF s2._codeListener THEN s2
              ELSE [s2 EXCEPT !._codeListener = TRUE, !.listeners = @ + 1]
    IN  /\ Commit(s3, [op |-> "add", again |-> _codeListener])

\* this.popup is read by the poll loops of _logout only: with no loop running
\* its value is not kept
login(win) ==
    /\ Commit([Cur EXCEPT !.popup = IF loops > 0 THEN win ELSE "null"],
              [op |-> "login"])

\* the application calls logout()
CallLogout(win) ==
    /\ Commit(logout(Cur, FALSE, win), [op |-> "logout"])

remove ==
    LET s1 == _resetUser(Cur)
        \* removeEventListener removes the listener held, if one is held
        s2 == [s1 EXCEPT !._codeListener = FALSE,
                         !.listeners = IF s1._codeListener THEN @ - 1 ELSE @]
        s3 == IF s2._iframe THEN [s2 EXCEPT !._iframe = FALSE] ELSE s2
    IN  /\ Commit(s3, [op |-> "remove"])

testLogin ==
    /\ Commit(IF _config.method # "apache"
                 /\ _config.method # "backend-credentials"
              THEN Cur
              ELSE Fetch(Cur, [kind |-> "testLogin"]),
              [op |-> "testLogin"])

\* getUserInfo as it would be if it passed no reject function on
getUserInfo_NoReject ==
    /\ Commit(_requestUserInfo(Cur, "promise", FALSE), [op |-> "getUserInfo"])

getUserInfo ==
    /\ Commit(_requestUserInfo(Cur, "promise", TRUE), [op |-> "getUserInfo"])

\* ------------------------------------------------------- events of the page

\* _receiveMessage as it would be if it did not compare the state of the
\* message with _state
_receiveMessage_NoStateCheck(event) ==
    /\ _codeListener
    /\ Commit(
         IF _config.method = "apache" /\ Contains(_config.authUrl.v, event.origin)
         THEN IF Truthy(Get(event.data, "email"))
              THEN _setToken(Cur, event.data, Now, "open")
              ELSE Cur
         ELSE IF Truthy(Get(event.data, "code"))
         THEN LET s1 == _requestToken(Cur, event.data.code)
              IN  IF s1._iframe THEN [s1 EXCEPT !._iframe = FALSE] ELSE s1
         ELSE Cur,
         [op |-> "message", event |-> event])

\* the body of _receiveMessage, bound to the service whose fields are s and
\* whose _state is state
listener(s, state, event) ==
    IF _config.method = "apache" /\ Contains(_config.authUrl.v, event.origin)
    THEN IF Truthy(Get(event.data, "email"))
         THEN _setToken(s, event.data, Now, "open")
         ELSE s
    ELSE IF Truthy(Get(event.data, "code"))
            /\ Get(event.data, "state") = state
    THEN LET s1 == _requestToken(s, event.data.code)
         IN  IF s1._iframe THEN [s1 EXCEPT !._iframe = FALSE] ELSE s1
    ELSE s

\* the message listener runs for a message event
_receiveMessage(event) ==
    /\ _codeListener
    /\ Commit(listener(Cur, _state, event), [op |-> "message", event |-> event])

\* a refresh interval fires
TimerFires ==
    /\ timers # {}
    /\ Commit(_requestRefreshToken(Cur, "timer"), [op |-> "timer"])

\* the window this.popup refers to closes and the next tick of a poll loop of
\* _logout finds it closed
PollTick ==
    /\ loops > 0
    /\ popup = "open"
    /\ Commit(logout([Cur EXCEPT !.loops = @ - 1, !.popup = "null"], TRUE, "null"),
              [op |-> "pollTick"])

\* ------------------------------------------------- responses of the network

\* the promise chain of _requestToken: json(), _setToken, catch
TokenResponse(r, out, win) ==
    /\ BagIn(r, net)
    /\ r.kind = "token"
    /\ LET s0 == Settle(Cur, r)
           s1 == IF out.how = "json"
                 THEN _setToken(s0, out.body, Now, win)
                 ELSE Throw(s0)
       IN  Commit(IF s1.threw
                  THEN _triggerError(Caught(s1), Str("error"))
                  ELSE s1,
                  [op |-> "tokenResponse", out |-> out])

\* the promise chain of _requestUserInfo
UserInfoResponse(r, out) ==
    /\ BagIn(r, net)
    /\ r.kind = "userinfo"
    /\ LET s0 == Settle(Cur, r)
           base == IF Truthy(s0._identity) THEN s0._identity.v ELSE EmptyObject
           s1 == CASE out.how = "failed" /\ r.reject ->
                        \* reject(self._identity), then the second callback
                        \* runs with json undefined and throws at json.profile
                        LET a == PromiseSettles(s0, "reject", s0._identity)
                        IN  [a EXCEPT !._identity = Obj(base)]
                   [] out.how = "json" ->
                        LET a == [s0 EXCEPT !._identity =
                                     Obj(Assign(base,
                                         Or(Get(out.body, "profile"),
                                            Obj(out.body)).v))]
                        IN  CASE r.resolve = "promise" ->
                                   PromiseSettles(a, "resolve", a._identity)
                              [] r.resolve = "authenticated" ->
                                   [a EXCEPT !.fired =
                                       Append(@, [cb |-> "authenticated",
                                                  arg |-> a._identity]),
                                             !.seen = Append(@, This(a))]
                              [] OTHER -> a
                   [] OTHER -> s0
       IN  Commit(s1, [op |-> "userinfoResponse", req |-> r, out |-> out])

\* the promise chain of _requestRefreshToken, by method
RefreshResponse(r, out) ==
    /\ BagIn(r, net)
    /\ r.kind = "refresh"
    /\ LET s0 == Settle(Cur, r)
           renew(s, data) ==
               LET tok == Or(Get(data, "token"), Get(data, "access_token"))
               IN  [s EXCEPT !._token = tok,
                             !._refreshToken = Or(Get(data, "refresh_token"), tok)]
           s1 == CASE _config.method = "backend-token" ->
                        CASE out.how = "failed" -> _resetUser(s0)
                          [] out.how = "json" -> renew(s0, out.body)
                          [] OTHER -> s0
                   [] _config.method = "public" ->
                        CASE out.how = "failed" -> _resetUser(s0)
                          [] out.how = "json" ->
                               renew([s0 EXCEPT !._expire = Undefined], out.body)
                          [] OTHER -> [s0 EXCEPT !._expire = Undefined]
                   [] OTHER ->
                        CASE out.how = "failed" -> _resetUser(s0)
                          [] out.how = "json" ->
                               IF ~Truthy(Get(out.body, "email"))
                               THEN _resetUser(s0)
                               ELSE _setUserCredentials(s0, out.body)
                          [] OTHER -> s0
       IN  Commit(s1, [op |-> "refreshResponse", req |-> r, out |-> out])

\* the fetch of _logout settles, either way
LogoutResponse(r) ==
    /\ BagIn(r, net)
    /\ r.kind = "logout"
    /\ Commit(logout(Settle(Cur, r), TRUE, "null"),
              [op |-> "logoutResponse"])

\* the promise chain of testLogin
TestLoginResponse(r, out, win) ==
    /\ BagIn(r, net)
    /\ r.kind = "testLogin"
    /\ LET s0 == Settle(Cur, r)
           json == IF out.how = "json" THEN out.body ELSE EmptyObject
           s1 == IF out.how # "unparsable"
                    /\ (Truthy(Get(json, "email"))
                        \/ Truthy(Get(json, "preferred_username")))
                 THEN Caught(_setToken(s0, json, Now, win))
                 ELSE s0
       IN  Commit(s1, [op |-> "testLoginResponse", out |-> out])

\* the promise chain of _requestOpenidEndpoints
OpenidResponse(r, out) ==
    /\ BagIn(r, net)
    /\ r.kind = "openid"
    /\ LET s0 == Settle(Cur, r)
           s1 == IF out.how = "failed"
                 THEN _triggerError(s0, Str("INVALID_OPENID"))
                 ELSE s0
       IN  /\ _config' =
                IF out.how = "json"
                   /\ Truthy(Get(out.body, "authorization_endpoint"))
                THEN [_config EXCEPT
                        !.authUrl = Get(out.body, "authorization_endpoint"),
                        !.tokenUrl = Get(out.body, "token_endpoint"),
                        !.refreshUrl = Get(out.body, "token_endpoint"),
                        !.userinfoUrl = Get(out.body, "userinfo_endpoint"),
                        !.logoutUrl = Get(out.body, "end_session_endpoint")]
                ELSE _config
           /\ net' = s1.net
           /\ fired' = s1.fired
           /\ sent' = s1.sent
           /\ seen' = s1.seen
           /\ lastOp' = [op |-> "openidResponse", out |-> out]
           /\ UNCHANGED <<_state, _nonce, _callback, _codeListener, listeners,
                          _identity, _iframe, _expire, _timer, _refreshToken,
                          _token, popup, loops, timers, page>>

\* ------------------------------------------------------------ specification

Requests == BagToSet(net)

Next ==
    \/ on
    \/ add
    \/ \E w \in Windows : login(w)
    \/ \E w \in Windows : CallLogout(w)
    \/ remove
    \/ testLogin
    \/ getUserInfo
    \/ \E ev \in Events : _receiveMessage(ev)
    \/ TimerFires
    \/ PollTick
    \/ \E r \in Requests, o \in Outcomes(TokenResponses), w \in Windows :
          TokenResponse(r, o, w)
    \/ \E r \in Requests, o \in Outcomes(UserinfoResponses) :
          UserInfoResponse(r, o)
    \/ \E r \in Requests, o \in Outcomes(RefreshResponses) :
          RefreshResponse(r, o)
    \/ \E r \in Requests : LogoutResponse(r)
    \/ \E r \in Requests, o \in Outcomes(TestLoginResponses), w \in Windows :
          TestLoginResponse(r, o, w)
    \/ \E r \in Requests, o \in Outcomes(OpenidResponses) :
          OpenidResponse(r, o)

Spec == Init /\ [][Next]_vars

\* ------------------------------------- construction with a provider base URL

\* the longest provider base URL, in characters
MaxUrlLen == 5

\* provider base URLs, as their characters
BaseUrls == UNION {[1..n -> {"k", "/"}] : n \in 0..MaxUrlLen}

\* the configuration new AuthService(id, {keycloakUrl: url}) starts from: the
\* defaults of _config with the given base URL
KeycloakConfig(url) ==
    [method |-> "public", type |-> "keycloak", authUrl |-> Null,
     tokenUrl |-> Null, refreshUrl |-> Null, userinfoUrl |-> Null,
     logoutUrl |-> Null, keycloakUrl |-> Str(url)]

\* the constructor as it would be if it used the base URL as given
constructor_AsGiven(config) ==
    LET keycloakUrl == config.keycloakUrl.v
    IN  [config EXCEPT
           !.type = "keycloak",
           !.authUrl = Str(keycloakUrl \o <<"protocol/openid-connect/auth">>),
           !.tokenUrl = Str(keycloakUrl \o <<"protocol/openid-connect/token">>),
           !.refreshUrl = Str(keycloakUrl \o <<"protocol/openid-connect/token">>),
           !.userinfoUrl =
               Str(keycloakUrl \o <<"protocol/openid-connect/userinfo">>),
           !.logoutUrl = Str(keycloakUrl \o <<"protocol/openid-connect/logout">>)]

\* the keycloakUrl branch of the constructor: the endpoints derived from the
\* base URL, a string given as its characters followed by the path appended
constructor(config) ==
    LET given == config.keycloakUrl.v
        \* keycloakUrl.substr(-1) != '/'
        keycloakUrl == IF Len(given) = 0 \/ given[Len(given)] # "/"
                       THEN given \o <<"/">> ELSE given
    IN  [config EXCEPT
           !.type = "keycloak",
           !.authUrl = Str(keycloakUrl \o <<"protocol/openid-connect/auth">>),
           !.tokenUrl = Str(keycloakUrl \o <<"protocol/openid-connect/token">>),
           !.refreshUrl = Str(keycloakUrl \o <<"protocol/openid-connect/token">>),
           !.userinfoUrl =
               Str(keycloakUrl \o <<"protocol/openid-connect/userinfo">>),
           !.logoutUrl = Str(keycloakUrl \o <<"protocol/openid-connect/logout">>)]

\* new AuthService(id, {keycloakUrl: url}) is about to run its constructor
UrlInit ==
    /\ _config \in {KeycloakConfig(url) : url \in BaseUrls}
    /\ _state = Undefined
    /\ _nonce = Undefined
    /\ page = <<>>
    /\ _callback = [authenticated |-> FALSE, logout |-> FALSE, error |-> FALSE]
    /\ _codeListener = FALSE
    /\ listeners = 0
    /\ _identity = Null
    /\ _iframe = FALSE
    /\ _expire = Null
    /\ _timer = Null
    /\ _refreshToken = Null
    /\ _token = Null
    /\ popup = "null"
    /\ loops = 0
    /\ timers = {}
    /\ net = EmptyBag
    /\ lastOp = [op |-> "new"]
    /\ fired = <<>>
    /\ sent = <<>>
    /\ seen = <<>>

\* the constructor runs
Construct ==
    /\ lastOp.op = "new"
    /\ _config' = constructor(_config)
    /\ _state' = _initState(ServiceId, Today)._state
    /\ _nonce' = _initState(ServiceId, Today)._nonce
    /\ lastOp' = [op |-> "constructor"]
    /\ UNCHANGED <<_callback, _codeListener, listeners, _identity, _iframe,
                   _expire, _timer, _refreshToken, _token, popup, loops,
                   timers, net, fired, sent, seen, page>>

UrlNext == Construct

UrlSpec == UrlInit /\ [][UrlNext]_vars

\* ------------------------------------------------ two services on one page

\* the identifiers of the services: 'a1', 'a4', 'a?' and 'b1'
Ids == {<<97, 49>>, <<97, 52>>, <<97, 63>>, <<98, 49>>}

\* the configurations of the services: those of the methods that log in by a
\* code, with the endpoints given
PageConfigs ==
    {c \in Configs : c.method \in {"public", "backend-token"}
                      /\ c.openidUrl = Null}

\* the code messages the redirect page posts to the window: for the login of
\* a service of some identifier, or with no state
PageEvents ==
    {[origin |-> OtherOrigin,
      data |-> [code |-> Str("c"), state |-> _initState(id, Today)._state]] :
        id \in Ids}
    \cup {[origin |-> OtherOrigin, data |-> [code |-> Str("c")]]}

\* two services of distinct identifiers and of the same configuration have
\* been constructed, and add() has been called on each
PageInit ==
    \E id \in Ids, other \in Ids :
       /\ id # other
       /\ _config \in PageConfigs
       /\ _state = _initState(id, Today)._state
       /\ _nonce = _initState(id, Today)._nonce
       /\ _callback = [authenticated |-> FALSE, logout |-> FALSE, error |-> FALSE]
       /\ _codeListener = TRUE
       /\ listeners = 1
       /\ _identity = Null
       /\ _iframe = _config.iframe
       /\ _expire = Null
       /\ _timer = Null
       /\ _refreshToken = Null
       /\ _token = Null
       /\ popup = "null"
       /\ loops = 0
       /\ timers = {}
       /\ net = EmptyBag
       /\ lastOp = [op |-> "add", again |-> FALSE]
       /\ fired = <<>>
       /\ sent = <<>>
       /\ seen = <<>>
       /\ page = <<[_id |-> other,
                    _state |-> _initState(other, Today)._state,
                    _nonce |-> _initState(other, Today)._nonce,
                    s |-> [_codeListener |-> TRUE, listeners |-> 1,
                           _identity |-> Null, _iframe |-> _config.iframe,
                           _expire |-> Null, _timer |-> Null,
                           _refreshToken |-> Null, _token |-> Null,
                           popup |-> "null", loops |-> 0, timers |-> {},
                           net |-> EmptyBag, fired |-> <<>>, sent |-> <<>>,
                           seen |-> <<>>, threw |-> FALSE, ovf |-> FALSE]]>>

\* a message event is dispatched: the window calls the listener of each service
Deliver(event) ==
    LET o == listener([page[1].s EXCEPT !.fired = <<>>, !.sent = <<>>,
                                        !.seen = <<>>],
                      page[1]._state, event)
    IN  /\ _codeListener
        /\ Store(listener(Cur, _state, event),
                 [op |-> "deliver", event |-> event])
        /\ ~o.ovf
        /\ page' = <<[page[1] EXCEPT !.s = o]>>

PageNext == \E ev \in PageEvents : Deliver(ev)

PageSpec == PageInit /\ [][PageNext]_vars

\* ------------------------------------------------------------------ claims

\* the unauthenticated state: no token, no refresh token, no identity and no
\* refresh interval left running
Unauthenticated ==
    /\ _token = Null
    /\ _refreshToken = Null
    /\ _identity = Null
    /\ _timer = Null
    /\ timers = {}

\* a logout that was started can still complete: its request is in flight, or
\* a poll loop watches a popup
LogoutPending ==
    \/ \E r \in Requests : r.kind = "logout"
    \/ loops > 0 /\ popup # "null"

\* the state of the session a message, a response or a call may change
session ==
    <<_token, _refreshToken, _identity, _expire, _timer, timers, _iframe>>

\* C1: a call of logout() ends in the unauthenticated state, for every method
\* and with or without a logout URL: once logout() has run and no logout
\* request or popup is left to wait for, the session is unauthenticated.
C1_LogoutEndsUnauthenticated ==
    (lastOp.op = "logout" /\ ~LogoutPending) => Unauthenticated

\* C2: at most one refresh interval is live in every reachable state.
C2_AtMostOneTimer == Cardinality(timers) <= 1

\* C3: under public, backend-token and backend-credentials a message whose
\* state is absent or differs from _state changes no session state, invokes no
\* callback and issues no request.
C3_MismatchedStateIgnored ==
    [][(/\ lastOp'.op = "message"
        /\ _config.method # "apache"
        /\ Get(lastOp'.event.data, "state") # _state)
       => (/\ UNCHANGED session
           /\ net' = net
           /\ fired' = <<>>
           /\ sent' = <<>>)]_vars

\* C3 happens: the listener of a service with its hidden iframe attached has
\* just run for a message with a code and a state that is not _state
C3_Witness ==
    /\ lastOp.op = "message"
    /\ _config.method # "apache"
    /\ Truthy(Get(lastOp.event.data, "code"))
    /\ Get(lastOp.event.data, "state") = OtherState
    /\ _iframe
    /\ _codeListener

\* C4: under apache a message is acted on only if its origin is contained in
\* the authorize URL and its payload carries an email; any other message
\* changes no session state and issues no request.
C4_ApacheOtherMessagesIgnored ==
    [][(/\ lastOp'.op = "message"
        /\ _config.method = "apache"
        /\ ~(/\ Contains(_config.authUrl.v, lastOp'.event.origin)
              /\ Truthy(Get(lastOp'.event.data, "email"))))
       => (/\ UNCHANGED session
           /\ net' = net
           /\ sent' = <<>>)]_vars

\* the session was reset by the task that ran last
JustReset ==
    /\ Unauthenticated
    /\ \/ lastOp.op \in {"remove", "logoutResponse", "pollTick"}
       \/ lastOp.op = "logout" /\ ~Truthy(_config.logoutUrl)

\* C5: the response of a code exchange that arrives after the session was
\* reset leaves it unauthenticated and invokes no authenticated callback.
C5_NoResurrection ==
    [][(JustReset /\ lastOp'.op = "tokenResponse")
       => (/\ Unauthenticated'
           /\ \A i \in DOMAIN fired' : fired'[i].cb # "authenticated")]_vars

\* C6: an identity is never held without a token.
C6_IdentityImpliesToken ==
    _identity # Null => _token # Null

\* the body of the response the last task read, {} when it read none
body == IF "out" \in DOMAIN lastOp /\ lastOp.out.how = "json"
        THEN lastOp.out.body ELSE EmptyObject

\* the token a response body carries: data.token || data.access_token
Carried(b) == Or(Get(b, "token"), Get(b, "access_token"))

\* the identity token a response body embeds: data.id_token, else data.token
Embedded(b) == Or(Get(b, "id_token"), Get(b, "token"))

\* the last task was the response of a code exchange, its body carrying a token
\* and an embedded identity token
ExchangedWithIdentityToken ==
    /\ lastOp.op = "tokenResponse"
    /\ Truthy(Carried(body))
    /\ Truthy(Embedded(body))

\* the callbacks named name that the last task invoked, in order
Invoked(f, name) == SelectSeq(f, LAMBDA c : c.cb = name)

\* C7 as stated: every exchange response with a token and an embedded identity
\* token (one that decodes) leaves _token the carried token and _identity the
\* decoded claims, and invokes the recorded authenticated callback with that
\* identity.
C7_ExchangeSetsClaims ==
    [][(/\ ExchangedWithIdentityToken'
        /\ WellFormedJwt(Embedded(body')))
       => (/\ _token' = Carried(body')
           /\ _identity' = Obj(JwtClaims[Embedded(body').v])
           /\ _callback["authenticated"]
              => Invoked(fired', "authenticated")
                   = <<[cb |-> "authenticated", arg |-> _identity']>>)]_vars

\* C7, amended: when the body carries no email and the identity token decodes,
\* _token is the carried token, _identity is the data member of the decoded
\* claims if they have one and the claims otherwise, and the authenticated
\* callback, if one is recorded, is invoked once with that identity.
C7_ExchangeSetsIdentity ==
    [][(/\ ExchangedWithIdentityToken'
        /\ ~Truthy(Get(body', "email"))
        /\ WellFormedJwt(Embedded(body')))
       => (/\ _token' = Carried(body')
           /\ _identity' = Or(Get(JwtClaims[Embedded(body').v], "data"),
                              Obj(JwtClaims[Embedded(body').v]))
           /\ fired' = IF _callback["authenticated"]
                       THEN <<[cb |-> "authenticated", arg |-> _identity']>>
                       ELSE <<>>)]_vars

\* C7 happens: an exchange response with an access token and an identity
\* token whose claims have a data member was recorded and the callback ran
C7_Witness ==
    /\ ExchangedWithIdentityToken
    /\ ~Truthy(Get(body, "email"))
    /\ Get(body, "id_token") = Str("jA")
    /\ _token = Str("t1")
    /\ _identity = JwtClaims["jA"].data
    /\ Len(fired) = 1

\* the last task was, under public, the response of a code exchange, its body
\* carrying an access token and a refresh token and no identity token
ExchangedWithoutIdentityToken ==
    /\ lastOp.op = "tokenResponse"
    /\ _config.method = "public"
    /\ Truthy(Get(body, "access_token"))
    /\ Truthy(Get(body, "refresh_token"))
    /\ ~Truthy(Embedded(body))

\* the last task was the successful response of the userinfo request of the
\* fallback of _setToken (the one request issued without a reject function)
FallbackResolved ==
    /\ lastOp.op = "userinfoResponse"
    /\ _config.method = "public"
    /\ ~lastOp.req.reject
    /\ lastOp.out.how = "json"

\* the profile a userinfo body returns: json.profile || json
Profile(b) == Or(Get(b, "profile"), Obj(b))

C9_TimerArmedOnAuthentication ==
    [][(/\ Invoked(fired', "authenticated") # <<>>
        /\ _timer = Null)
       => (/\ _timer' # Null
           /\ \E x \in timers' : Num(x.id) = _timer' /\ x.delay = _expire')]_vars

\* min(a, b)
Min(a, b) == IF a < b THEN a ELSE b

\* C10: after the response of a code exchange whose body carries a token,
\* _expire is expires_in * 1000 when the body carries expires_in, and otherwise
\* min(exp * 1000 - now, 1800000) when the identity token carries exp.
C10_ExpiryArithmetic ==
    [][(/\ lastOp'.op = "tokenResponse"
        /\ Truthy(Carried(body'))
        /\ ~Truthy(Get(body', "email")))
       => IF Truthy(Get(body', "expires_in"))
          THEN _expire' = Num(body'.expires_in.v * 1000)
          ELSE (/\ WellFormedJwt(Embedded(body'))
                /\ Truthy(Get(JwtClaims[Embedded(body').v], "exp")))
               => _expire' = Num(Min(JwtClaims[Embedded(body').v].exp.v * 1000
                                     - Now, ExpireMax))]_vars

\* C11: in every reachable state _expire is null (or was never given a value)
\* or at most 30 minutes.
C11_ExpiryCapped ==
    IF _expire.t = "num" THEN _expire.v <= ExpireMax
    ELSE _expire \in {Null, Undefined}

\* the fields _resetUser clears are null
Reset ==
    /\ _token = Null
    /\ _refreshToken = Null
    /\ _identity = Null
    /\ _expire = Null
    /\ _timer = Null

\* the callbacks a task that only resets the session invokes: the logout
\* callback, when one is recorded
OnlyLogout ==
    IF _callback["logout"] THEN <<[cb |-> "logout", arg |-> Undefined]>> ELSE <<>>

\* the last task was, under backend-credentials, the response of the probe of
\* add(), with a JSON body that has no email
ProbeWithoutEmail ==
    /\ lastOp.op = "refreshResponse"
    /\ _config.method = "backend-credentials"
    /\ lastOp.req.caller = "add"
    /\ lastOp.out.how = "json"
    /\ ~Truthy(Get(body, "email"))

ApacheIdentityMessage ==
    /\ lastOp.op = "message"
    /\ _config.method = "apache"
    /\ Contains(_config.authUrl.v, lastOp.event.origin)
    /\ Truthy(Get(lastOp.event.data, "email"))

\* C13: under apache such a message sets _identity to the payload and _token
\* to true, and issues no request.
C13_ApacheMessageSetsIdentity ==
    [][ApacheIdentityMessage'
       => (/\ _identity' = Obj(lastOp'.event.data)
           /\ _token' = True
           /\ sent' = <<>>
           /\ net' = net)]_vars

\* C13 happens: an unauthenticated apache session with nothing in flight has
\* received the message and holds the payload as identity
C13_Witness ==
    /\ ApacheIdentityMessage
    /\ _identity = Obj([email |-> Str("a@b.com")])
    /\ _token = True
    /\ _timer # Null
    /\ net = EmptyBag

\* C14: right after remove() the session is unauthenticated (token, refresh
\* token, identity and expiry null, no refresh interval live), its listener
\* is detached and no hidden frame is attached.
C14_RemoveEndsUnauthenticated ==
    lastOp.op = "remove"
    => (/\ Reset
        /\ timers = {}
        /\ ~_codeListener
        /\ ~_iframe)

\* C15: once remove() was called no operation registers the message listener
\* again; in particular the task that follows remove() does not.
C15_NoListenerAfterRemove ==
    [][lastOp.op = "remove" => ~_codeListener']_vars

\* C16: after every call of add() the window has exactly one message listener
\* of the service, and a call of add() on a service that holds a listener
\* registers none.
C16_AddRegistersOnce ==
    [][lastOp'.op = "add"
       => (/\ listeners' = 1
           /\ _codeListener'
           /\ _codeListener => listeners' = listeners)]_vars

\* C16 happens: add() was called on a service that held its listener
C16_Witness ==
    /\ lastOp.op = "add"
    /\ lastOp.again
    /\ listeners = 1

\* the last task was the response of a refresh that failed: the fetch of a
\* refresh a timer started was rejected, or under backend-credentials and
\* apache the body of a refresh response has no email
RefreshFailed ==
    /\ lastOp.op = "refreshResponse"
    /\ \/ lastOp.req.caller = "timer" /\ lastOp.out.how = "failed"
       \/ /\ _config.method \in {"backend-credentials", "apache"}
          /\ lastOp.out.how = "json"
          /\ ~Truthy(Get(body, "email"))

\* C17: a failed refresh resets the session (token, refresh token, identity
\* and expiry null, no refresh interval live) and invokes the logout callback,
\* when recorded, and no other callback.
C17_RefreshFailureResets ==
    [][RefreshFailed'
       => (/\ Reset'
           /\ timers' = {}
           /\ fired' = OnlyLogout)]_vars

\* the last task was the response of a code exchange with a JSON body that
\* carries no token, no access_token and no email
ExchangedNothing ==
    /\ lastOp.op = "tokenResponse"
    /\ lastOp.out.how = "json"
    /\ ~Truthy(Carried(body))
    /\ ~Truthy(Get(body, "email"))

\* C18: an exchange response with neither a token nor an email ends with the
\* session unauthenticated, for every method and with or without a logout
\* URL: once the response was handled and no logout request or popup is left
\* to wait for, the session is unauthenticated.
C18_EmptyExchangeEndsUnauthenticated ==
    (ExchangedNothing /\ ~LogoutPending) => Unauthenticated

\* the last task was the rejection of the fetch of a code exchange
ExchangeTransportFailed ==
    /\ lastOp.op = "tokenResponse"
    /\ lastOp.out.how = "failed"

\* C19: when the fetch of a code exchange is rejected the error callback, when
\* recorded, is invoked (and no other callback), the session state is left as
\* it was and no request is issued.
C19_TransportFailureTriggersError ==
    [][ExchangeTransportFailed'
       => (/\ fired' = IF _callback["error"]
                       THEN <<[cb |-> "error", arg |-> Str("error")]>>
                       ELSE <<>>
           /\ UNCHANGED session
           /\ sent' = <<>>)]_vars

\* C19 happens: the exchange of an unauthenticated session failed and the
\* error callback ran
C19_Witness ==
    /\ ExchangeTransportFailed
    /\ fired = <<[cb |-> "error", arg |-> Str("error")]>>
    /\ _token = Null
    /\ _identity = Null

\* the last task was the response of the metadata request of a discovered
\* provider, and the fetch failed or the response was malformed: not JSON, or
\* JSON without an authorization_endpoint
DiscoveryFailed ==
    /\ lastOp.op = "openidResponse"
    /\ \/ lastOp.out.how \in {"failed", "unparsable"}
       \/ ~Truthy(Get(body, "authorization_endpoint"))

\* the five endpoints of the configuration are null
EndpointsNull ==
    /\ _config.authUrl = Null
    /\ _config.tokenUrl = Null
    /\ _config.refreshUrl = Null
    /\ _config.userinfoUrl = Null
    /\ _config.logoutUrl = Null

\* C20: when the metadata request fails or its response is malformed, the
\* error callback, when recorded, is invoked with the error of the provider
\* metadata, and the five endpoints stay null.
C20_DiscoveryFailureTriggersError ==
    [][DiscoveryFailed'
       => (/\ _callback["error"]
              => fired' = <<[cb |-> "error", arg |-> Str("INVALID_OPENID")]>>
           /\ EndpointsNull')]_vars

\* the promise of the last task was rejected with reason why and nothing else
\* was invoked
RejectedWith(why) == fired = <<[cb |-> "reject", arg |-> Str(why)]>>

\* C21: getUserInfo() rejects with NO_USERINFO_URL when no userinfo URL is
\* set, and with NOT_AUTHENTICATED when one is set, the method is not apache
\* and no token is held; in both cases it issues no request and leaves the
\* session state as it was.
C21_GetUserInfoRejects ==
    [][lastOp'.op = "getUserInfo"
       => /\ ~Truthy(_config.userinfoUrl)
             => (/\ RejectedWith("NO_USERINFO_URL")'
                 /\ sent' = <<>> /\ net' = net /\ UNCHANGED session)
          /\ (/\ Truthy(_config.userinfoUrl)
              /\ _config.method # "apache"
              /\ ~Truthy(_token))
             => (/\ RejectedWith("NOT_AUTHENTICATED")'
                 /\ sent' = <<>> /\ net' = net /\ UNCHANGED session)]_vars

\* C21 happens: getUserInfo() was called on an unauthenticated session with a
\* userinfo URL and was rejected
C21_Witness ==
    /\ lastOp.op = "getUserInfo"
    /\ Truthy(_config.userinfoUrl)
    /\ _token = Null
    /\ RejectedWith("NOT_AUTHENTICATED")

\* the five endpoints of a configuration
Endpoints(config) ==
    <<config.authUrl, config.tokenUrl, config.refreshUrl, config.userinfoUrl,
      config.logoutUrl>>

\* the base URL the service was constructed with lacks the trailing '/'
LacksSlash ==
    LET url == _config.keycloakUrl.v
    IN  Len(url) = 0 \/ url[Len(url)] # "/"

\* C22: a service constructed with a base URL that lacks the trailing '/' has
\* the endpoints the constructor derives from that base URL followed by '/'.
C22_TrailingSlashIrrelevant ==
    (lastOp.op = "constructor" /\ LacksSlash)
    => Endpoints(_config)
         = Endpoints(constructor(
               KeycloakConfig(_config.keycloakUrl.v \o <<"/">>)))

\* C22 happens: a service was constructed with the base URL k
C22_Witness ==
    /\ lastOp.op = "constructor"
    /\ _config.keycloakUrl = Str(<<"k">>)
    /\ _config.authUrl = Str(<<"k", "/", "protocol/openid-connect/auth">>)

\* C23: the state and the nonce the constructor set are the state and the nonce
\* of every later state: no task assigns either.
C23_StateAndNonceFixed ==
    [][/\ _state' = _state /\ _state = State
       /\ _nonce' = _nonce /\ _nonce = Nonce]_vars

\* C23 happens: a refresh was answered, the service is authenticated, and the
\* state and the nonce are those of the construction
C23_Witness ==
    /\ lastOp.op = "refreshResponse"
    /\ Truthy(_token)
    /\ _state = State
    /\ _nonce = Nonce

\* the fields of the other service on the page, without the history of its
\* last task
OtherFields(p) == [p[1].s EXCEPT !.fired = <<>>, !.sent = <<>>, !.seen = <<>>]

\* C24: of two services on one page, a code message that one accepts, sending
\* the token request, is discarded by the other: the other sends no request
\* and none of its fields changes.
C24_OtherServiceDiscards ==
    [][lastOp'.op = "deliver"
       => /\ sent' # <<>>
             => (page'[1].s.sent = <<>> /\ OtherFields(page') = OtherFields(page))
          /\ page'[1].s.sent # <<>>
             => (sent' = <<>> /\ net' = net /\ UNCHANGED session)]_vars

\* the methods that rely on the session of the browser
Ambient == {"backend-credentials", "apache"}

\* C25: add() sends the refresh request that probes the session of the browser
\* when, and only when, the method is backend-credentials or apache.
C25_AddProbesAmbientMethods ==
    [][lastOp'.op = "add"
       => ((\E i \in DOMAIN sent' : sent'[i].kind = "refresh")
           <=> _config.method \in Ambient)]_vars

\* the step is the answer, with an email, to a request that probes the session
\* of the browser under a method that relies on it
AmbientEmailResponse ==
    /\ lastOp'.op \in {"refreshResponse", "testLoginResponse"}
    /\ _config.method \in Ambient
    /\ lastOp'.out.how = "json"
    /\ Truthy(Get(lastOp'.out.body, "email"))

\* C26: under backend-credentials and apache an answer with an email sets the
\* token to true, the identity to the answer and the expiry to lifetime * 1000,
\* or to 1,200,000 with no lifetime; an interval is armed and the authenticated
\* callback invoked only when no interval is running.
C26_AmbientEmailResponse ==
    [][AmbientEmailResponse
       => /\ _token' = True
          /\ _identity' = Obj(lastOp'.out.body)
          /\ _expire' = IF Truthy(_config.lifetime)
                        THEN Num(_config.lifetime.v * 1000) ELSE Num(1200000)
          /\ (timers' # timers \/ fired' # <<>>) => timers = {}]_vars

\* C28: when a task invokes the authenticated callback, the token, the identity
\* and the expiry the callback finds are those the task ends with, and the
\* interval the task arms is not armed yet: _timer is as before the task.
C28_DerivedBeforeNotified ==
    [][\A i \in DOMAIN fired' :
          fired'[i].cb = "authenticated"
          => /\ seen'[i]._token = _token'
             /\ seen'[i]._identity = _identity'
             /\ seen'[i]._expire = _expire'
             /\ seen'[i]._timer = _timer]_vars

\* the task is the message listener and it accepted the message: it sent the
\* token request or recorded the identity of the message
MessageAccepted ==
    /\ lastOp'.op = "message"
    /\ (sent' # <<>> \/ _identity' # _identity \/ _token' # _token)

\* C27: the hidden iframe is gone once a message was accepted, and the service
\* never holds a token and an identity while the iframe is in the document.
C27_FrameOnlyWhileSilentAuth ==
    [][/\ MessageAccepted => ~_iframe'
       /\ (Truthy(_token') /\ Truthy(_identity')) => ~_iframe']_vars

\* the endpoint a request of the given kind is sent to
Endpoint(kind) ==
    CASE kind = "token" -> _config.tokenUrl
      [] kind = "refresh" -> _config.refreshUrl
      [] kind = "userinfo" -> _config.userinfoUrl
      [] kind = "testLogin" -> _config.userinfoUrl
      [] kind = "logout" -> _config.logoutUrl
      [] kind = "openid" -> _config.openidUrl

\* C29: nothing is opened at, and no request is sent to, an endpoint that is
\* null: login() opens its popup and add() creates its iframe only when authUrl
\* is set, and every request a task sends goes to an endpoint that is set.
C29_NullEndpointsUnused ==
    [][/\ lastOp'.op = "login" => Truthy(_config.authUrl)
       /\ (_iframe' /\ ~_iframe) => Truthy(_config.authUrl)
       /\ \A i \in DOMAIN sent' : Truthy(Endpoint(sent'[i].kind))]_vars

\* the step is the answer, with a token, to a refresh request an interval sent
\* under one of the given methods
TimerRefreshed(methods) ==
    /\ lastOp'.op = "refreshResponse"
    /\ lastOp'.req.caller = "timer"
    /\ _config.method \in methods
    /\ lastOp'.out.how = "json"
    /\ Truthy(Carried(lastOp'.out.body))

\* C30: under public and backend-token the answer, with a token, to a refresh
\* request of the interval replaces _token and _refreshToken (the refresh token
\* of the answer, else the new token) and nothing else: the identity, the
\* expiry and the interval, with its delay, stay as they were.
C30_RefreshReplacesTokensOnly ==
    [][TimerRefreshed({"public", "backend-token"})
       => /\ _token' = Carried(lastOp'.out.body)
          /\ _refreshToken' = Or(Get(lastOp'.out.body, "refresh_token"), _token')
          /\ _identity' = _identity
          /\ _expire' = _expire
          /\ _timer' = _timer
          /\ timers' = timers]_vars

\* C31: while the session is reset (the fields _resetUser clears are null, as
\* after logout, a failed refresh or remove(), and no authentication has
\* succeeded since) no interval of the service sends a refresh request.
C31_NoRefreshWhileReset ==
    [][Reset => \A i \in DOMAIN sent' :
                   ~(sent'[i].kind = "refresh" /\ sent'[i].caller = "timer")]_vars

\* C32: the promise of getUserInfo() settles: the call rejects it or sends the
\* userinfo request, and the task that handles the outcome of that request,
\* the only one left that can settle the promise, resolves or rejects it.
C32_GetUserInfoSettles ==
    [][/\ lastOp'.op = "getUserInfo"
          => (sent' = <<>> <=> Invoked(fired', "reject") # <<>>)
       /\ (lastOp'.op = "userinfoResponse" /\ lastOp'.req.resolve = "promise")
          => \E i \in DOMAIN fired' : fired'[i].cb \in {"resolve", "reject"}]_vars

\* C33: the error callback is invoked only by the task that handles a code
\* exchange that failed (its fetch was rejected, or its response could not be
\* read) or the outcome of the metadata request; the response of an exchange
\* whose body carries a token, with or without an embedded identity token,
\* does not invoke it.
C33_ErrorOnlyOnFailure ==
    [][/\ Invoked(fired', "error") # <<>>
          => \/ lastOp'.op = "tokenResponse" /\ lastOp'.out.how # "json"
             \/ lastOp'.op = "openidResponse"
       /\ (/\ lastOp'.op = "tokenResponse"
           /\ lastOp'.out.how = "json"
           /\ Truthy(Carried(lastOp'.out.body)))
          => Invoked(fired', "error") = <<>>]_vars

\* the answer testLogin read carries an email or a preferred_username
IdentityIndicated(out) ==
    /\ out.how = "json"
    /\ (Truthy(Get(out.body, "email"))
        \/ Truthy(Get(out.body, "preferred_username")))

\* C34: testLogin() logs nobody out. Under public and backend-token it sends
\* no request and changes nothing. Under apache and backend-credentials the
\* task that handles the outcome of its request invokes no logout callback and
\* starts no logout; without an email or a preferred_username in the answer
\* (or with no answer) it changes nothing, and with one it leaves the service
\* with a token and an identity.
C34_TestLoginNeverLogsOut ==
    [][/\ (lastOp'.op = "testLogin" /\ _config.method \notin Ambient)
          => (sent' = <<>> /\ fired' = <<>> /\ UNCHANGED session)
       /\ lastOp'.op = "testLoginResponse"
          => /\ Invoked(fired', "logout") = <<>>
             /\ \A i \in DOMAIN sent' : sent'[i].kind # "logout"
             /\ loops' = loops
             /\ IF IdentityIndicated(lastOp'.out)
                THEN Truthy(_token') /\ Truthy(_identity')
                ELSE UNCHANGED session]_vars

====
